---------------------------- MODULE Spec2Model ----------------------------
(***************************************************************************)
(* Model of the bnlDockedLayout directive                                  *)
(* (src/BnLCharts/bnlCharts/directives/bnl-docked-layout.js).              *)
(*                                                                         *)
(* Strings that the code parses (the margin, width and height attributes)  *)
(* are sequences of one-character strings, so that split(',') and Number() *)
(* are computed and not assumed.  JavaScript's undefined is Undef, a tuple  *)
(* that is no string; NaN is an integer outside the range of every number  *)
(* the model computes.  The width and height attributes range over decimal *)
(* integer strings; the margin attribute also over non-numeric parts.      *)
(***************************************************************************)
EXTENDS Integers, Sequences, FiniteSets, TLC

VARIABLES
    children,        \* the child elements' attributes, in document order
    svg,             \* <<clientWidth, clientHeight>> of the owner svg element
    scope,           \* $scope.width / $scope.height of this layout (Undef until assigned)
    transform,       \* per child: the transform attribute, Undef or <<x, y>>
    childScope,      \* per child: width / height on its isolate scope, Undef until assigned
    pc,              \* position of the render handler: "idle", "each", "undocked";
                     \* "parse" / "parsed" around a stand-alone parseMargin call
    rendered,        \* TRUE once a render handler has started
    index,           \* $.each index, then the i of the undocked loop
    width,           \* the handler's local width
    height,          \* the handler's local height
    undockedMargin,  \* the handler's local undockedMargin
    undocked,        \* the handler's local undocked list: <<[child, childMargin]>>
    calls,           \* history of this pass: the positionChild calls, in order
    frames,          \* history of this pass: undockedMargin after each $.each callback
    warned,          \* history of this pass: children the unsupported-dock message named
    text,            \* the argument of a stand-alone parseMargin call
    margin           \* its result

vars == <<children, svg, scope, transform, childScope, pc, rendered, index,
          width, height, undockedMargin, undocked, calls, frames, warned,
          text, margin>>

Undef == << "undefined" >>
NaN == 0 - 1000000

-----------------------------------------------------------------------------
(* Bounds                                                                  *)

MaxChildren == 2
MaxParts == 5

\* the parts a margin text is joined from: "", "5", "12", "-3", "x", "2"
Tokens == { <<>>, <<"5">>, <<"1", "2">>, <<"-", "3">>, <<"x">>, <<"2">> }

Top == << "t", "o", "p" >>
Right == << "r", "i", "g", "h", "t" >>
Bottom == << "b", "o", "t", "t", "o", "m" >>
Left == << "l", "e", "f", "t" >>
Diagonal == << "d", "i", "a", "g", "o", "n", "a", "l" >>

\* the attribute values of a child in the layout specifications
Docks == { Undef, Top, Right, Bottom, Left, Diagonal }
\* margin absent, or "1,2,3,-6": with width="3" a negative footprint of -1
MarginAttrs == { Undef, <<"1", ",", "2", ",", "3", ",", "-", "6">> }
WidthAttrs == { Undef, <<"3">> }
HeightAttrs == { Undef, <<"2">> }

\* svg.clientWidth, svg.clientHeight
SvgSize == <<8, 6>>
\* the sizes an enclosing layout assigns to this layout's scope
AssignedSizes == { <<0, 2>>, <<7, 0>>, <<3, 5>> }

-----------------------------------------------------------------------------
(* JavaScript primitives                                                   *)

Digits == { "0", "1", "2", "3", "4", "5", "6", "7", "8", "9" }

DigitVal(c) ==
    CASE c = "0" -> 0 [] c = "1" -> 1 [] c = "2" -> 2 [] c = "3" -> 3
      [] c = "4" -> 4 [] c = "5" -> 5 [] c = "6" -> 6 [] c = "7" -> 7
      [] c = "8" -> 8 [] c = "9" -> 9

RECURSIVE DecimalVal(_)
DecimalVal(s) ==
    IF s = <<>> THEN 0
    ELSE 10 * DecimalVal(SubSeq(s, 1, Len(s) - 1)) + DigitVal(s[Len(s)])

AllDigits(s) == \A k \in 1..Len(s) : s[k] \in Digits

\* Number(string): "" is 0, an optionally signed run of digits is its value,
\* anything else is NaN.
ToNumber(s) ==
    IF s = <<>> THEN 0
    ELSE IF AllDigits(s) THEN DecimalVal(s)
    ELSE IF s[1] = "-" /\ Len(s) > 1 /\ AllDigits(Tail(s)) THEN 0 - DecimalVal(Tail(s))
    ELSE NaN

isNaN(v) == v = NaN

\* truthiness of a string-or-undefined and of a number-or-undefined
TruthyString(s) == s # Undef /\ s # <<>>
TruthyNumber(n) == n # NaN /\ n # 0

Max(a, b) == IF a >= b THEN a ELSE b
Min(a, b) == IF a <= b THEN a ELSE b

\* text.split(','): the parts between the commas, at least one part
RECURSIVE Split(_)
Split(s) ==
    IF \A k \in 1..Len(s) : s[k] # ","
    THEN << s >>
    ELSE LET p == CHOOSE k \in 1..Len(s) :
                      s[k] = "," /\ \A j \in 1..(k - 1) : s[j] # ","
         IN  << SubSeq(s, 1, p - 1) >> \o Split(SubSeq(s, p + 1, Len(s)))

RECURSIVE Join(_)
Join(parts) ==
    IF Len(parts) = 1 THEN parts[1]
    ELSE parts[1] \o << "," >> \o Join(Tail(parts))

-----------------------------------------------------------------------------
(* parseMargin                                                             *)

ZeroMargin == [top |-> 0, right |-> 0, bottom |-> 0, left |-> 0]

\* SetFields giving up on the whole margin at the first part that is no number
SetFields_FailAll(m, fields, v) ==
    IF isNaN(v) THEN ZeroMargin
    ELSE [top    |-> IF "top" \in fields THEN v ELSE m.top,
          right  |-> IF "right" \in fields THEN v ELSE m.right,
          bottom |-> IF "bottom" \in fields THEN v ELSE m.bottom,
          left   |-> IF "left" \in fields THEN v ELSE m.left]

\* "if (!isNaN(v)) margin.f = v" for a set of fields
SetFields(m, fields, v) ==
    IF isNaN(v) THEN m
    ELSE [top    |-> IF "top" \in fields THEN v ELSE m.top,
          right  |-> IF "right" \in fields THEN v ELSE m.right,
          bottom |-> IF "bottom" \in fields THEN v ELSE m.bottom,
          left   |-> IF "left" \in fields THEN v ELSE m.left]

parseMargin(t) ==
    IF ~TruthyString(t) THEN ZeroMargin
    ELSE LET parts == Split(t)
             n     == Len(parts)
         IN  IF n = 1 THEN
                 SetFields(ZeroMargin, {"top", "right", "bottom", "left"}, ToNumber(parts[1]))
             ELSE IF n = 2 THEN
                 SetFields(SetFields(ZeroMargin, {"top", "bottom"}, ToNumber(parts[1])),
                           {"right", "left"}, ToNumber(parts[2]))
             ELSE IF n = 3 THEN
                 SetFields(SetFields(SetFields(ZeroMargin, {"top"}, ToNumber(parts[1])),
                                     {"right", "left"}, ToNumber(parts[2])),
                           {"bottom"}, ToNumber(parts[3]))
             ELSE IF n >= 4 THEN
                 SetFields(SetFields(SetFields(SetFields(ZeroMargin,
                                                         {"top"}, ToNumber(parts[1])),
                                               {"right"}, ToNumber(parts[2])),
                                     {"bottom"}, ToNumber(parts[3])),
                           {"left"}, ToNumber(parts[4]))
             ELSE ZeroMargin

-----------------------------------------------------------------------------
-----------------------------------------------------------------------------
(* The bnl-chart-render handler                                            *)

Sides == { Top, Right, Bottom, Left }

\* var width = $scope.width ? $scope.width : svg.clientWidth  (and height)
WorkingWidth(sc, sv) == IF sc # Undef /\ TruthyNumber(sc[1]) THEN sc[1] ELSE sv[1]
WorkingHeight(sc, sv) == IF sc # Undef /\ TruthyNumber(sc[2]) THEN sc[2] ELSE sv[2]

\* RequestedWidth falling back to the width of the remaining frame
RequestedWidth_Frame(child, w) ==
    IF TruthyString(child.width) THEN ToNumber(child.width)
    ELSE undockedMargin.right - undockedMargin.left

\* childWidth / childHeight before the switch
RequestedWidth(child, w) ==
    IF TruthyString(child.width) THEN ToNumber(child.width) ELSE w
RequestedHeight(child, h) ==
    IF TruthyString(child.height) THEN ToNumber(child.height) ELSE h

\* EffectiveDock without the reset of the default branch
EffectiveDock_Keep(dock) == dock

\* the value of dock after the switch: an unsupported value becomes undefined
EffectiveDock(dock) ==
    IF TruthyString(dock) /\ dock \notin Sides THEN Undef ELSE dock

\* the default branch of the switch logs the message
Unsupported(dock) == TruthyString(dock) /\ dock \notin Sides

\* DockFrame where the last child docked to a side sets the bound
DockFrame_LastWins(dock, frame, m, cw, ch, w, h) ==
    LET childDockHeight == m.top + ch + m.bottom
        childDockWidth  == m.left + cw + m.right
    IN  IF ~TruthyString(dock) THEN frame
        ELSE IF dock = Top THEN [frame EXCEPT !.top = childDockHeight]
        ELSE IF dock = Right THEN [frame EXCEPT !.right = w - childDockWidth]
        ELSE IF dock = Bottom THEN [frame EXCEPT !.bottom = h - childDockHeight]
        ELSE IF dock = Left THEN [frame EXCEPT !.left = childDockWidth]
        ELSE frame

\* undockedMargin after the switch
DockFrame(dock, frame, m, cw, ch, w, h) ==
    LET x == 0
        y == 0
        childDockHeight == m.top + ch + m.bottom
        childDockWidth  == m.left + cw + m.right
    IN  IF ~TruthyString(dock) THEN frame
        ELSE IF dock = Top THEN
            [frame EXCEPT !.top = Max(y + childDockHeight, frame.top)]
        ELSE IF dock = Right THEN
            [frame EXCEPT !.right = Min(w - childDockWidth, frame.right)]
        ELSE IF dock = Bottom THEN
            [frame EXCEPT !.bottom = Min(h - childDockHeight, frame.bottom)]
        ELSE IF dock = Left THEN
            [frame EXCEPT !.left = Max(x + childDockWidth, frame.left)]
        ELSE frame

\* childX, childY, childWidth, childHeight after the switch
DockRect(dock, m, cw, ch, w, h) ==
    LET x == 0
        y == 0
        childDockHeight == m.top + ch + m.bottom
        childDockWidth  == m.left + cw + m.right
    IN  IF dock = Top THEN
            [x |-> x + m.left, y |-> y + m.top,
             width |-> cw - (m.left + m.right), height |-> ch]
        ELSE IF dock = Right THEN
            [x |-> w - childDockWidth, y |-> y + m.top,
             width |-> cw, height |-> ch - (m.top + m.bottom)]
        ELSE IF dock = Bottom THEN
            [x |-> x + m.left, y |-> h - childDockHeight,
             width |-> cw - (m.left + m.right), height |-> ch]
        ELSE IF dock = Left THEN
            [x |-> x + m.left, y |-> y + m.top,
             width |-> cw, height |-> ch - (m.top + m.bottom)]
        ELSE [x |-> x + m.left, y |-> y + m.top, width |-> cw, height |-> ch]

\* UndockedRect that honours the child's left and top margin only
UndockedRect_NoFarMargin(frame, m) ==
    LET childX == frame.left + m.left
        childY == frame.top + m.top
    IN  [x |-> childX, y |-> childY,
         width  |-> frame.right - childX,
         height |-> frame.bottom - childY]

\* the rectangle of the second loop
UndockedRect(frame, m) ==
    LET childX == frame.left + m.left
        childY == frame.top + m.top
    IN  [x |-> childX, y |-> childY,
         width  |-> (frame.right - m.right) - childX,
         height |-> (frame.bottom - m.bottom) - childY]

\* undocked.unshift(item)
Unshift(queue, item) == << item >> \o queue

\* undocked.push(item)
Push(queue, item) == Append(queue, item)

\* transform written by positionChild
Translate(old, x, y) == IF x # 0 \/ y # 0 THEN << x, y >> ELSE old

positionChild(c, r) ==
    /\ transform' = [transform EXCEPT ![c] = Translate(transform[c], r.x, r.y)]
    /\ childScope' = [childScope EXCEPT ![c] = << r.width, r.height >>]
    /\ calls' = Append(calls, [child |-> c, rect |-> r])

\* AfterEach leaving the loop one child early
AfterEach_OffByOne(k, n, queue) ==
    IF k < n - 1 THEN "each" ELSE IF queue # << >> THEN "undocked" ELSE "idle"

\* where the handler goes after the $.each callback of child k
AfterEach(k, n, queue) ==
    IF k < n THEN "each" ELSE IF queue # << >> THEN "undocked" ELSE "idle"

\* the handler up to the first $.each callback
RenderStart ==
    /\ pc = "idle"
    /\ rendered' = TRUE
    /\ width' = WorkingWidth(scope, svg)
    /\ height' = WorkingHeight(scope, svg)
    /\ undocked' = << >>
    /\ undockedMargin' = [top |-> 0, right |-> width', bottom |-> height', left |-> 0]
    /\ index' = 1
    /\ calls' = << >>
    /\ frames' = << >>
    /\ warned' = << >>
    /\ pc' = AfterEach(0, Len(children), << >>)
    /\ UNCHANGED << children, svg, scope, transform, childScope, text, margin >>

\* one callback of $.each
EachChild ==
    /\ pc = "each"
    /\ LET child       == children[index]
           childMargin == parseMargin(child.margin)
           childWidth  == RequestedWidth(child, width)
           childHeight == RequestedHeight(child, height)
           dock        == EffectiveDock(child.dock)
       IN  /\ undockedMargin' = DockFrame(child.dock, undockedMargin, childMargin,
                                          childWidth, childHeight, width, height)
           /\ warned' = IF Unsupported(child.dock) THEN Append(warned, index) ELSE warned
           /\ IF TruthyString(dock)
              THEN /\ positionChild(index, DockRect(dock, childMargin, childWidth,
                                                    childHeight, width, height))
                   /\ undocked' = undocked
              ELSE /\ undocked' = Push(undocked,
                                       [child |-> index, childMargin |-> childMargin])
                   /\ UNCHANGED << transform, childScope, calls >>
    /\ frames' = Append(frames, undockedMargin')
    /\ pc' = AfterEach(index, Len(children), undocked')
    /\ index' = IF index < Len(children) THEN index + 1 ELSE 1
    /\ UNCHANGED << children, svg, scope, rendered, width, height, text, margin >>

\* one iteration of the loop over undocked
PlaceUndocked ==
    /\ pc = "undocked"
    /\ positionChild(undocked[index].child,
                     UndockedRect(undockedMargin, undocked[index].childMargin))
    /\ pc' = IF index < Len(undocked) THEN "undocked" ELSE "idle"
    /\ index' = IF index < Len(undocked) THEN index + 1 ELSE index
    /\ UNCHANGED << children, svg, scope, rendered, width, height, undockedMargin,
                    undocked, frames, warned, text, margin >>

\* positionChild of an enclosing bnl-docked-layout, writing this layout's scope
ParentAssign ==
    /\ pc = "idle"
    /\ \E size \in AssignedSizes : scope' = size
    /\ UNCHANGED << children, svg, transform, childScope, pc, rendered, index, width,
                    height, undockedMargin, undocked, calls, frames, warned, text, margin >>

-----------------------------------------------------------------------------
(* Specifications                                                          *)

ChildAttrs == [dock : Docks, margin : MarginAttrs, width : WidthAttrs, height : HeightAttrs]

ChildLists == UNION { [1..n -> ChildAttrs] : n \in 0..MaxChildren }

InitLayout ==
    /\ children \in ChildLists
    /\ svg = SvgSize
    /\ scope = Undef
    /\ transform = [c \in 1..Len(children) |-> Undef]
    /\ childScope = [c \in 1..Len(children) |-> Undef]
    /\ pc = "idle"
    /\ rendered = FALSE
    /\ index = 1
    /\ width = 0
    /\ height = 0
    /\ undockedMargin = [top |-> 0, right |-> 0, bottom |-> 0, left |-> 0]
    /\ undocked = << >>
    /\ calls = << >>
    /\ frames = << >>
    /\ warned = << >>
    /\ text = Undef
    /\ margin = ZeroMargin

\* one render pass of a layout that takes its size from the svg element
FirstRender == ~rendered /\ RenderStart

Init == InitLayout
Next == FirstRender \/ EachChild \/ PlaceUndocked
Spec == Init /\ [][Next]_vars

\* any number of renders of a layout nested in another layout, the enclosing
\* layout assigning its size between them
NextRender == ParentAssign \/ RenderStart \/ EachChild \/ PlaceUndocked
SpecRender == InitLayout /\ [][NextRender]_vars

\* a stand-alone call of parseMargin on a text joined from Tokens
MarginTexts ==
    { Undef } \cup
    { Join(parts) : parts \in UNION { [1..n -> Tokens] : n \in 1..MaxParts } }

InitParse ==
    /\ text \in MarginTexts
    /\ margin = ZeroMargin
    /\ pc = "parse"
    /\ children = << >>
    /\ svg = SvgSize
    /\ scope = Undef
    /\ transform = << >>
    /\ childScope = << >>
    /\ rendered = FALSE
    /\ index = 1
    /\ width = 0
    /\ height = 0
    /\ undockedMargin = [top |-> 0, right |-> 0, bottom |-> 0, left |-> 0]
    /\ undocked = << >>
    /\ calls = << >>
    /\ frames = << >>
    /\ warned = << >>

Parse ==
    /\ pc = "parse"
    /\ margin' = parseMargin(text)
    /\ pc' = "parsed"
    /\ UNCHANGED << children, svg, scope, transform, childScope, rendered, index, width,
                    height, undockedMargin, undocked, calls, frames, warned, text >>

NextParse == Parse
SpecParse == InitParse /\ [][NextParse]_vars

-----------------------------------------------------------------------------
(* Vocabulary of the properties                                            *)

\* a render handler has run to its end
Done == pc = "idle" /\ rendered

ChildIds == 1..Len(children)
CallsOf(c) == { k \in 1..Len(calls) : calls[k].child = c }

IsDocked(c) == children[c].dock \in Sides
IsAbsentDock(c) == children[c].dock = Undef
IsUnrecognized(c) == children[c].dock \notin (Sides \cup { Undef, << >> })

SetMax(S) == CHOOSE v \in S : \A u \in S : v >= u
SetMin(S) == CHOOSE v \in S : \A u \in S : v <= u

\* the reference layout of a child list cs in a parent w x h, written from the
\* formulas of the design: margin-inclusive footprints, a frame that is the
\* extreme of the footprints of each side, docked rectangles measured from the
\* parent's edges and undocked rectangles from the frame.
RefW(a, w) == IF a.width = Undef THEN w ELSE ToNumber(a.width)
RefH(a, h) == IF a.height = Undef THEN h ELSE ToNumber(a.height)
RefFootW(a, w) == LET m == parseMargin(a.margin) IN m.left + RefW(a, w) + m.right
RefFootH(a, h) == LET m == parseMargin(a.margin) IN m.top + RefH(a, h) + m.bottom

RefFrame(cs, w, h) ==
    [top    |-> SetMax({ 0 } \cup { RefFootH(cs[c], h) : c \in { d \in DOMAIN cs : cs[d].dock = Top } }),
     left   |-> SetMax({ 0 } \cup { RefFootW(cs[c], w) : c \in { d \in DOMAIN cs : cs[d].dock = Left } }),
     bottom |-> SetMin({ h } \cup { h - RefFootH(cs[c], h) : c \in { d \in DOMAIN cs : cs[d].dock = Bottom } }),
     right  |-> SetMin({ w } \cup { w - RefFootW(cs[c], w) : c \in { d \in DOMAIN cs : cs[d].dock = Right } })]

RefDocked(a, w, h) ==
    LET m == parseMargin(a.margin)
    IN  IF a.dock = Top THEN
            [x |-> m.left, y |-> m.top,
             width |-> RefW(a, w) - m.left - m.right, height |-> RefH(a, h)]
        ELSE IF a.dock = Bottom THEN
            [x |-> m.left, y |-> h - RefFootH(a, h),
             width |-> RefW(a, w) - m.left - m.right, height |-> RefH(a, h)]
        ELSE IF a.dock = Left THEN
            [x |-> m.left, y |-> m.top,
             width |-> RefW(a, w), height |-> RefH(a, h) - m.top - m.bottom]
        ELSE
            [x |-> w - RefFootW(a, w), y |-> m.top,
             width |-> RefW(a, w), height |-> RefH(a, h) - m.top - m.bottom]

RefUndocked(f, m) ==
    [x |-> f.left + m.left, y |-> f.top + m.top,
     width  |-> (f.right - m.right) - (f.left + m.left),
     height |-> (f.bottom - m.bottom) - (f.top + m.top)]

\* the child list with every unrecognized dock attribute removed
Strip(cs) ==
    [c \in DOMAIN cs |->
        IF cs[c].dock \notin (Sides \cup { Undef }) THEN [cs[c] EXCEPT !.dock = Undef]
        ELSE cs[c]]

\* undockedMargin before the $.each callback of child c
FrameBefore(c) ==
    IF c = 1 THEN [top |-> 0, right |-> width, bottom |-> height, left |-> 0]
    ELSE frames[c - 1]

-----------------------------------------------------------------------------
(* Properties                                                              *)

\* C1: in one render pass every child is assigned a rectangle exactly once:
\* no child is assigned twice at any point of the pass, and when the pass
\* ends every child has been assigned, so the number of assignments equals
\* the number of children.
C1_EveryChildAssignedOnce ==
    /\ \A c \in ChildIds : Cardinality(CallsOf(c)) <= 1
    /\ \A k \in 1..Len(calls) : calls[k].child \in ChildIds
    /\ Done => /\ Len(calls) = Len(children)
               /\ \A c \in ChildIds : Cardinality(CallsOf(c)) = 1

C1_Witness ==
    /\ Done
    /\ Len(children) >= 2
    /\ \E c \in ChildIds : IsDocked(c)
    /\ \E c \in ChildIds : IsUnrecognized(c) /\ children[c].margin # Undef
    /\ Len(calls) = Len(children)

\* C2 (as claimed): the assignments of a pass list the children in the order
\* of the input child list.
C2_AssignmentsInInputOrder ==
    Done => \A k \in 1..Len(calls) : calls[k].child = k

\* C2 (amended): the assignments of a pass list first the children docked to
\* a recognized side, in input order, and then all other children, in input
\* order.
C2_DockedThenUndockedInInputOrder ==
    LET ids == [k \in ChildIds |-> k]
        NotDocked(c) == ~IsDocked(c)
    IN  Done => [k \in 1..Len(calls) |-> calls[k].child]
                    = SelectSeq(ids, IsDocked) \o SelectSeq(ids, NotDocked)

C2_Witness ==
    /\ Done
    /\ Len(children) >= 2
    /\ ~IsDocked(1)
    /\ IsDocked(2)
    /\ calls[1].child = 2
    /\ calls[2].child = 1

\* C3: every undocked child is placed from the finalized frame, the frame
\* that the footprints of all docked children of the list give (also of
\* those after it in input order): x = frame.left + margin.left,
\* y = frame.top + margin.top, width = (frame.right - margin.right) - x,
\* height = (frame.bottom - margin.bottom) - y.  The frame has that value
\* throughout the second loop, and the child's own width and height
\* attributes do not enter its rectangle.
C3_UndockedPlacedFromFinalFrame ==
    /\ (pc = "each" /\ rendered) => \A k \in 1..Len(calls) : ~IsAbsentDock(calls[k].child)
    /\ (pc = "undocked" \/ Done) =>
          LET frame == RefFrame(children, width, height)
          IN  /\ undockedMargin = frame
              /\ \A k \in 1..Len(calls) :
                    IsAbsentDock(calls[k].child) =>
                        calls[k].rect = RefUndocked(frame,
                                            parseMargin(children[calls[k].child].margin))
    /\ Done => \A c \in ChildIds : IsAbsentDock(c) => CallsOf(c) # { }

C3_Witness ==
    /\ Done
    /\ Len(children) >= 2
    /\ IsAbsentDock(1)
    /\ children[1].width # Undef
    /\ children[1].margin # Undef
    /\ children[2].dock = Left
    /\ undockedMargin.left > 0
    /\ \E k \in CallsOf(1) : calls[k].rect.x = undockedMargin.left - 6

\* C4: the rectangle of a docked child is a function of the parent width and
\* height and of the child's own dock, margin, width and height: it is
\* measured from the parent's edges, a missing width or height is the
\* parent's, and two children with equal attributes receive equal
\* rectangles.
C4_DockedRectFromOwnAttributes ==
    /\ \A k \in 1..Len(calls) :
          IsDocked(calls[k].child) =>
              calls[k].rect = RefDocked(children[calls[k].child], width, height)
    /\ \A j, k \in 1..Len(calls) :
          (IsDocked(calls[j].child) /\ children[calls[j].child] = children[calls[k].child])
              => calls[j].rect = calls[k].rect

C4_Witness ==
    /\ Done
    /\ Len(children) >= 2
    /\ children[1] = children[2]
    /\ children[1].dock = Left
    /\ children[1].width = Undef
    /\ Len(calls) = 2
    /\ calls[1].rect = calls[2].rect
    /\ calls[2].rect.width = width

\* C5: a child whose dock attribute is a non-empty value other than top,
\* right, bottom or left does not stop the pass and is laid out as an
\* undocked child: its callback leaves the frame unchanged, every child of
\* the list receives the rectangle it receives in the list with that dock
\* attribute removed, and the message is logged exactly once for that child
\* and for no other child.
C5_UnrecognizedDockIsUndocked ==
    /\ \A k \in 1..Len(warned) : IsUnrecognized(warned[k])
    /\ \A c \in ChildIds :
          (IsUnrecognized(c) /\ Len(frames) >= c) => frames[c] = FrameBefore(c)
    /\ Done =>
          /\ \A c \in ChildIds :
                IsUnrecognized(c) =>
                    Cardinality({ k \in 1..Len(warned) : warned[k] = c }) = 1
          /\ \A c \in ChildIds : CallsOf(c) # { }
          /\ (\E c \in ChildIds : IsUnrecognized(c)) =>
                LET cs == Strip(children)
                    frame == RefFrame(cs, width, height)
                IN  \A k \in 1..Len(calls) :
                        calls[k].rect =
                            IF cs[calls[k].child].dock \in Sides
                            THEN RefDocked(cs[calls[k].child], width, height)
                            ELSE RefUndocked(frame, parseMargin(cs[calls[k].child].margin))

C5_Witness ==
    /\ Done
    /\ Len(children) >= 2
    /\ IsUnrecognized(1)
    /\ children[1].width # Undef
    /\ children[1].height # Undef
    /\ children[1].margin # Undef
    /\ children[2].dock = Top
    /\ warned = << 1 >>
    /\ \E k \in CallsOf(1) : calls[k].rect.y = undockedMargin.top + 1

\* the comma-separated parts of a text, from the positions of its commas
CommasOf(t) == { k \in 1..Len(t) : t[k] = "," }
NParts(t) == Cardinality(CommasOf(t)) + 1
NthComma(t, j) ==
    CHOOSE k \in CommasOf(t) : Cardinality({ i \in CommasOf(t) : i <= k }) = j
PartOf(t, j) ==
    SubSeq(t, IF j = 1 THEN 1 ELSE NthComma(t, j - 1) + 1,
              IF j = NParts(t) THEN Len(t) ELSE NthComma(t, j) - 1)
\* the number a part contributes: its value, or the default 0 when it is no number
PartValue(t, j) == IF ToNumber(PartOf(t, j)) = NaN THEN 0 ELSE ToNumber(PartOf(t, j))

CssMargin(t) ==
    IF t = Undef \/ t = << >> THEN [top |-> 0, right |-> 0, bottom |-> 0, left |-> 0]
    ELSE IF NParts(t) = 1 THEN
        [top |-> PartValue(t, 1), right |-> PartValue(t, 1),
         bottom |-> PartValue(t, 1), left |-> PartValue(t, 1)]
    ELSE IF NParts(t) = 2 THEN
        [top |-> PartValue(t, 1), right |-> PartValue(t, 2),
         bottom |-> PartValue(t, 1), left |-> PartValue(t, 2)]
    ELSE IF NParts(t) = 3 THEN
        [top |-> PartValue(t, 1), right |-> PartValue(t, 2),
         bottom |-> PartValue(t, 3), left |-> PartValue(t, 2)]
    ELSE
        [top |-> PartValue(t, 1), right |-> PartValue(t, 2),
         bottom |-> PartValue(t, 3), left |-> PartValue(t, 4)]

\* C6: parseMargin returns all four fields as numbers, never NaN, following
\* the CSS shorthand by the number of comma-separated parts (none for an
\* undefined or empty text; 1, 2, 3, or 4 and more, the parts after the
\* fourth ignored), and a part that is no number leaves only the fields it
\* would have set at 0.
C6_ParseMarginCssShorthand ==
    pc = "parsed" =>
        /\ margin = CssMargin(text)
        /\ \A v \in { margin.top, margin.right, margin.bottom, margin.left } :
              v \in Int /\ v # NaN

C6_Witness ==
    /\ pc = "parsed"
    /\ text = << "x", ",", "2" >>
    /\ margin = [top |-> 0, right |-> 2, bottom |-> 0, left |-> 2]

\* the offset a child is displayed at: its transform, none being (0, 0)
DisplayedOffset(c) == IF transform[c] = Undef THEN << 0, 0 >> ELSE transform[c]

\* C7 (as claimed): after any sequence of renders the position and size
\* applied to every child are those of the rectangle the most recent render
\* computed for it.
C7_AppliedIsLatestRect ==
    Done => \A k \in 1..Len(calls) :
                /\ DisplayedOffset(calls[k].child) = << calls[k].rect.x, calls[k].rect.y >>
                /\ childScope[calls[k].child] = << calls[k].rect.width, calls[k].rect.height >>

\* C8 (as claimed): a pass of a layout whose scope an enclosing layout has
\* assigned width W and height H runs with width = W and height = H, and its
\* frame starts as {top 0, right W, bottom H, left 0}.
C8_WorkingSizeIsAssignedSize ==
    (pc \in { "each", "undocked" } /\ scope # Undef) =>
        /\ width = scope[1]
        /\ height = scope[2]
        /\ FrameBefore(1) = [top |-> 0, right |-> scope[1], bottom |-> scope[2], left |-> 0]

\* C9: during a pass the frame only shrinks and never leaves the parent:
\* after each child top and left are at least their previous values and 0,
\* right and bottom are at most their previous values and the parent width
\* and height, and a child that is not docked to a recognized side leaves
\* all four bounds unchanged.
C9_FrameOnlyShrinks ==
    \A c \in 1..Len(frames) :
        /\ frames[c].top >= FrameBefore(c).top
        /\ frames[c].left >= FrameBefore(c).left
        /\ frames[c].right <= FrameBefore(c).right
        /\ frames[c].bottom <= FrameBefore(c).bottom
        /\ frames[c].top >= 0
        /\ frames[c].left >= 0
        /\ frames[c].right <= width
        /\ frames[c].bottom <= height
        /\ ~IsDocked(c) => frames[c] = FrameBefore(c)

\* a child docked left with a footprint of 3, then one with a footprint of -1
C9_Witness ==
    /\ Len(frames) >= 2
    /\ children[1].dock = Left
    /\ children[2].dock = Left
    /\ children[1].width # Undef
    /\ children[1].margin = Undef
    /\ children[2].width # Undef
    /\ children[2].margin # Undef
    /\ RefFootW(children[2], width) < 0
    /\ frames[1].left = 3
    /\ frames[2] = frames[1]

\* C10 (as claimed): for every docked child the gap between its rectangle
\* and the parent edge it is docked to is its margin on that side, and the
\* gap between its rectangle and the frame bound its footprint gives is its
\* margin on the opposite side.
C10_MarginsOnTheSideTheyName ==
    \A k \in 1..Len(calls) :
        LET a == children[calls[k].child]
            m == parseMargin(a.margin)
            r == calls[k].rect
        IN  /\ a.dock = Top =>
                 /\ r.y - 0 = m.top
                 /\ RefFootH(a, height) - (r.y + r.height) = m.bottom
            /\ a.dock = Left =>
                 /\ r.x - 0 = m.left
                 /\ RefFootW(a, width) - (r.x + r.width) = m.right
            /\ a.dock = Bottom =>
                 /\ height - (r.y + r.height) = m.bottom
                 /\ r.y - (height - RefFootH(a, height)) = m.top
            /\ a.dock = Right =>
                 /\ width - (r.x + r.width) = m.right
                 /\ r.x - (width - RefFootW(a, width)) = m.left

=============================================================================
